---- MODULE Spec2Model ----
(***************************************************************************)
(* A model of chunk_tts.py, the text chunker for TTS.                      *)
(*                                                                         *)
(* A Python string is a sequence of characters, and a character is a       *)
(* one-character TLA+ string.  The en dash (U+2013) and the em dash        *)
(* (U+2014) are written "EN" and "EM".  Offsets into a string are 0-based  *)
(* as in the source; the character at offset k of t is t[k + 1].           *)
(***************************************************************************)
EXTENDS Integers, Sequences, FiniteSets, TLC

VARIABLES
    text,          \* the input string
    max_len,       \* the max_len argument
    pc,            \* the position of the run
    normalized,    \* normalize_for_tts(text)
    renormalized,  \* normalize_for_tts applied to its own output
    paragraphs,    \* chunk_text: split_into_paragraphs(normalized)
    all_chunks,    \* chunk_text: the chunks of the paragraphs processed so far
    final_chunks,  \* chunk_text: the returned list
    base_rule,     \* fallback_split_by_commas_and_conjs: its base_rule argument
    start,         \* fallback loop: the cursor
    window_start,  \* fallback loop: the cursor after skipping spaces, where the last window began
    window_end,    \* fallback loop: the end of the last window
    cut_at,        \* fallback loop: the last cut point
    rule,          \* fallback loop: the rule of the last cut
    chunks,        \* fallback loop: the chunks emitted so far
    entry_start,   \* fallback loop: the cursor when the last iteration began
    iters          \* fallback loop: the number of iterations made

vars == <<text, max_len, pc, normalized, renormalized, paragraphs, all_chunks,
          final_chunks, base_rule, start, window_start, window_end, cut_at,
          rule, chunks, entry_start, iters>>

----------------------------------------------------------------------------
(* Characters and their classes.                                           *)

HY == "-"
EN == "EN"
EM == "EM"
SP == " "
NL == "\n"
TAB == "\t"
COMMA == ","

LowerSeq == <<"a", "b", "c", "d", "e", "f", "g", "h", "i", "j", "k", "l", "m",
              "n", "o", "p", "q", "r", "s", "t", "u", "v", "w", "x", "y", "z">>

UpperSeq == <<"A", "B", "C", "D", "E", "F", "G", "H", "I", "J", "K", "L", "M",
              "N", "O", "P", "Q", "R", "S", "T", "U", "V", "W", "X", "Y", "Z">>

Digits == {"0", "1", "2", "3", "4", "5", "6", "7", "8", "9"}

\* [-EN EM] of the patterns and of the loop of step 3
IsDash(c) == c \in {HY, EN, EM}

Whitespace == {SP, NL, TAB, "\r", "\f"}

\* str.isspace and \s
IsSpace(c) == c \in Whitespace

Letters == {LowerSeq[i] : i \in 1..26} \cup {UpperSeq[i] : i \in 1..26}

\* [A-Za-z]
IsAlpha(c) == c \in Letters

\* str.isalnum
IsAlnum(c) == IsAlpha(c) \/ c \in Digits

\* \w, the class that \b is defined by
IsWord(c) == IsAlnum(c) \/ c = "_"

\* str.lower on one character
LowerChar(c) ==
    IF \E i \in 1..26 : c = UpperSeq[i]
    THEN LowerSeq[CHOOSE i \in 1..26 : c = UpperSeq[i]]
    ELSE c

\* str.lower
Lower(s) == [i \in 1..Len(s) |-> LowerChar(s[i])]

Min(a, b) == IF a < b THEN a ELSE b

Max(a, b) == IF a > b THEN a ELSE b

\* the first index r >= i of t whose character is not in the set class;
\* Len(t) + 1 when there is none
RunEnd(t, i, class) ==
    CHOOSE r \in i..(Len(t) + 1) :
        /\ (r = Len(t) + 1 \/ t[r] \notin class)
        /\ \A j \in i..(r - 1) : t[j] \in class

\* str.strip
Strip(s) ==
    LET first == RunEnd(s, 1, Whitespace)
        last  == IF first > Len(s) THEN 0
                 ELSE CHOOSE k \in first..Len(s) :
                          /\ ~IsSpace(s[k])
                          /\ \A j \in (k + 1)..Len(s) : IsSpace(s[j])
    IN  SubSeq(s, first, last)

\* sub in s: s contains sub as a contiguous run
Contains(s, sub) ==
    \E i \in 1..(Len(s) - Len(sub) + 1) : SubSeq(s, i, i + Len(sub) - 1) = sub

----------------------------------------------------------------------------
(* normalize_for_tts                                                       *)

DISCOURSE == {
    <<"h", "o", "w", "e", "v", "e", "r">>,
    <<"t", "h", "e", "r", "e", "f", "o", "r", "e">>,
    <<"m", "o", "r", "e", "o", "v", "e", "r">>,
    <<"i", "n", "s", "t", "e", "a", "d">>,
    <<"n", "e", "v", "e", "r", "t", "h", "e", "l", "e", "s", "s">>,
    <<"n", "o", "n", "e", "t", "h", "e", "l", "e", "s", "s">>,
    <<"f", "u", "r", "t", "h", "e", "r", "m", "o", "r", "e">>,
    <<"m", "e", "a", "n", "w", "h", "i", "l", "e">>,
    <<"p", "a", "r", "t", "i", "c", "u", "l", "a", "r", "l", "y">>,
    <<"e", "s", "p", "e", "c", "i", "a", "l", "l", "y">>,
    <<"o", "t", "h", "e", "r", "w", "i", "s", "e">>,
    <<"s", "i", "m", "i", "l", "a", "r", "l", "y">>,
    <<"c", "o", "n", "s", "e", "q", "u", "e", "n", "t", "l", "y">>,
    <<"t", "h", "u", "s">>,
    <<"i", "n", "d", "e", "e", "d">>,
    <<"a", "d", "d", "i", "t", "i", "o", "n", "a", "l", "l", "y">>,
    <<"t", "h", "o", "u", "g", "h">> }

\* step 1: the replacement for one match m of the aside pattern
replace_aside(m) ==
    LET inner == Strip(SubSeq(m, 2, Len(m) - 1))
    IN  IF \E i \in 1..Len(inner) : inner[i] = SP
        THEN <<COMMA, SP>> \o inner \o <<COMMA, SP>>
        ELSE m

\* a character that ends the run of the lazy group ([^ EN EM \n]*?): the
\* group is lazy, so the match closes at the first dash of any kind, and a
\* newline before that dash leaves no match
AsideStop(c) == IsDash(c) \/ c = NL

\* the index of the closing dash of the aside match that opens at i; 0 when
\* no match opens at i
aside_end(t, i) ==
    IF ~IsDash(t[i]) THEN 0
    ELSE LET stops == {r \in (i + 1)..Len(t) : AsideStop(t[r])}
             r     == IF stops = {} THEN 0
                      ELSE CHOOSE k \in stops : \A j \in stops : k <= j
         IN  IF r > 0 /\ IsDash(t[r]) THEN r ELSE 0

RECURSIVE sub_aside(_, _)
\* step 1: re.sub of the aside pattern over t from index i on
sub_aside(t, i) ==
    IF i > Len(t) THEN <<>>
    ELSE LET j == aside_end(t, i)
         IN  IF j > 0
             THEN replace_aside(SubSeq(t, i, j)) \o sub_aside(t, j + 1)
             ELSE <<t[i]>> \o sub_aside(t, i + 1)

\* step 2: the replacement for one match left-dash-right
replace_word_dash_discourse(left, dash, right) ==
    IF Lower(right) \in DISCOURSE
    THEN left \o <<COMMA, SP>> \o right
    ELSE left \o <<dash>> \o right

\* the index just after the match of \b([A-Za-z]+)([-EN EM])([A-Za-z]+)\b
\* that begins at i; 0 when no match begins at i
word_dash_end(t, i) ==
    IF ~IsAlpha(t[i]) \/ (i > 1 /\ IsWord(t[i - 1])) THEN 0
    ELSE LET k == RunEnd(t, i, Letters)
         IN  IF k + 1 > Len(t) \/ ~IsDash(t[k]) \/ ~IsAlpha(t[k + 1]) THEN 0
             ELSE LET m == RunEnd(t, k + 1, Letters)
                  IN  IF m <= Len(t) /\ IsWord(t[m]) THEN 0 ELSE m

RECURSIVE sub_word_dash(_, _)
\* step 2: re.sub of the word-dash-word pattern over t from index i on
sub_word_dash(t, i) ==
    IF i > Len(t) THEN <<>>
    ELSE LET m == word_dash_end(t, i)
         IN  IF m > 0
             THEN LET k == RunEnd(t, i, Letters)
                  IN  replace_word_dash_discourse(SubSeq(t, i, k - 1), t[k],
                                                  SubSeq(t, k + 1, m - 1))
                      \o sub_word_dash(t, m)
             ELSE <<t[i]>> \o sub_word_dash(t, i + 1)

\* step 3: one pass of the loop body, for the character at index i of t
dash_step(t, i, chars) ==
    LET ch   == t[i]
        prev == IF i > 1 THEN t[i - 1] ELSE SP
        nxt  == IF i < Len(t) THEN t[i + 1] ELSE SP
        n    == Len(chars)
    IN  IF ~IsDash(ch) THEN Append(chars, ch)
        ELSE IF IsAlnum(prev) /\ IsAlnum(nxt) THEN Append(chars, HY)
        ELSE IF n > 0 /\ chars[n] = SP
             THEN [chars EXCEPT ![n] = COMMA] \o <<SP>>
        ELSE IF n > 0 /\ chars[n] = COMMA
             THEN (IF nxt # SP THEN Append(chars, SP) ELSE chars)
        ELSE chars \o <<COMMA, SP>>

RECURSIVE dash_loop(_, _, _)
\* step 3: the loop over the characters of t from index i on
dash_loop(t, i, chars) ==
    IF i > Len(t) THEN chars
    ELSE dash_loop(t, i + 1, dash_step(t, i, chars))

RECURSIVE no_space_before_comma(_, _)
\* step 4: re.sub(r"\s+,", ",", t) from index i on
no_space_before_comma(t, i) ==
    IF i > Len(t) THEN <<>>
    ELSE LET r == RunEnd(t, i, Whitespace)
         IN  IF r > i /\ r <= Len(t) /\ t[r] = COMMA
             THEN <<COMMA>> \o no_space_before_comma(t, r + 1)
             ELSE <<t[i]>> \o no_space_before_comma(t, i + 1)

RECURSIVE single_space_after_comma(_, _)
\* step 4: re.sub(r",\s*", ", ", t) from index i on
single_space_after_comma(t, i) ==
    IF i > Len(t) THEN <<>>
    ELSE IF t[i] = COMMA
         THEN <<COMMA, SP>> \o single_space_after_comma(t, RunEnd(t, i + 1, Whitespace))
         ELSE <<t[i]>> \o single_space_after_comma(t, i + 1)

RECURSIVE collapse_spaces(_, _)
\* re.sub(r"\s+", " ", t) from index i on
collapse_spaces(t, i) ==
    IF i > Len(t) THEN <<>>
    ELSE IF IsSpace(t[i])
         THEN <<SP>> \o collapse_spaces(t, RunEnd(t, i, Whitespace))
         ELSE <<t[i]>> \o collapse_spaces(t, i + 1)

normalize_for_tts(t) ==
    LET t1 == sub_aside(t, 1)
        t2 == sub_word_dash(t1, 1)
        t3 == dash_loop(t2, 1, <<>>)
        t4 == no_space_before_comma(t3, 1)
        t5 == single_space_after_comma(t4, 1)
        t6 == collapse_spaces(t5, 1)
    IN  Strip(t6)

----------------------------------------------------------------------------
(* Python's slicing and searching, on 0-based offsets.                     *)

\* the offset a slice bound k denotes in a string of length n
SliceBound(k, n) == IF k < 0 THEN Max(k + n, 0) ELSE Min(k, n)

\* t[a:b]
Slice(t, a, b) == SubSeq(t, SliceBound(a, Len(t)) + 1, SliceBound(b, Len(t)))

\* t[k] for -len(t) <= k < len(t)
CharAt(t, k) == IF k < 0 THEN t[k + Len(t) + 1] ELSE t[k + 1]

\* the offsets in a..b-1 at which sub occurs in t and ends by b
Occurrences(t, sub, a, b) ==
    {k \in SliceBound(a, Len(t))..(SliceBound(b, Len(t)) - Len(sub)) :
        SubSeq(t, k + 1, k + Len(sub)) = sub}

\* t.find(sub, a, b)
Find(t, sub, a, b) ==
    LET occ == Occurrences(t, sub, a, b)
    IN  IF occ = {} THEN -1 ELSE CHOOSE k \in occ : \A j \in occ : k <= j

\* t.rfind(sub)
RFind(t, sub) ==
    LET occ == Occurrences(t, sub, 0, Len(t))
    IN  IF occ = {} THEN -1 ELSE CHOOSE k \in occ : \A j \in occ : k >= j

RECURSIVE Flatten(_)
\* the concatenation of a sequence of lists (list.extend in a loop)
Flatten(ss) == IF ss = <<>> THEN <<>> ELSE Head(ss) \o Flatten(Tail(ss))

NonEmpty(s) == s # <<>>

\* [p.strip() for p in parts if p.strip()]
StrippedNonEmpty(parts) ==
    SelectSeq([i \in 1..Len(parts) |-> Strip(parts[i])], NonEmpty)

----------------------------------------------------------------------------
(* split_into_paragraphs and split_into_sentences                          *)

\* the index just after the match of \n\s*\n+ that begins at i; 0 when no
\* match begins at i
para_sep_end(t, i) ==
    IF t[i] # NL THEN 0
    ELSE LET r   == RunEnd(t, i + 1, Whitespace)
             nls == {j \in (i + 1)..(r - 1) : t[j] = NL}
         IN  IF nls = {} THEN 0
             ELSE 1 + CHOOSE j \in nls : \A k \in nls : j >= k

RECURSIVE para_split(_, _, _)
\* re.split(r"\n\s*\n+", t) from index i on; the current piece began at from
para_split(t, i, from) ==
    IF i > Len(t) THEN <<SubSeq(t, from, Len(t))>>
    ELSE LET e == para_sep_end(t, i)
         IN  IF e > 0
             THEN <<SubSeq(t, from, i - 1)>> \o para_split(t, e, e)
             ELSE para_split(t, i + 1, from)

split_into_paragraphs(t) ==
    LET s == Strip(t)
    IN  IF s = <<>> THEN <<>> ELSE StrippedNonEmpty(para_split(s, 1, 1))

RECURSIVE sent_split(_, _, _)
\* re.split(r"(?<=[.!?])\s+", t) from index i on; the current piece began at from
sent_split(t, i, from) ==
    IF i > Len(t) THEN <<SubSeq(t, from, Len(t))>>
    ELSE IF IsSpace(t[i]) /\ i > 1 /\ t[i - 1] \in {".", "!", "?"}
         THEN LET r == RunEnd(t, i, Whitespace)
              IN  <<SubSeq(t, from, i - 1)>> \o sent_split(t, r, r)
         ELSE sent_split(t, i + 1, from)

split_into_sentences(p) ==
    LET paragraph == collapse_spaces(Strip(p), 1)
        parts     == sent_split(paragraph, 1, 1)
    IN  IF paragraph = <<>> THEN <<>>
        ELSE IF Len(parts) = 1 THEN <<paragraph>>
        ELSE StrippedNonEmpty(parts)

----------------------------------------------------------------------------
(* fallback_split_by_commas_and_conjs                                      *)

AND == <<" ", "a", "n", "d", " ">>

OR == <<" ", "o", "r", " ">>

RECURSIVE skip_spaces(_, _)
\* while start < length and text[start].isspace(): start += 1
\* (text[start] raises IndexError when start < -length, and the loop stops there)
skip_spaces(t, s) ==
    IF s < Len(t) /\ s >= -Len(t) /\ IsSpace(CharAt(t, s))
    THEN skip_spaces(t, s + 1)
    ELSE s

\* remaining_fits with the bound off by one: length - start <= max_len + 1
remaining_fits_off_by_one(t, s, ml) == Len(t) - s <= ml + 1

\* length - start <= max_len
remaining_fits(t, s, ml) == Len(t) - s <= ml

\* pos != -1 and pos > len(window_slice) * 0.3, for pos = window_slice.rfind(conj)
conj_accepted(window_slice, conj) ==
    LET pos == RFind(window_slice, conj)
    IN  pos # -1 /\ 10 * pos > 3 * Len(window_slice)

\* conj_match with the two conjunctions tried in the other order
conj_match_or_first(window_slice) ==
    IF conj_accepted(window_slice, OR) THEN RFind(window_slice, OR)
    ELSE IF conj_accepted(window_slice, AND) THEN RFind(window_slice, AND)
    ELSE -1

\* the loop over [" and ", " or "]: the offset in window_slice that match_pos
\* is set from, -1 when match_pos stays None
conj_match(window_slice) ==
    IF conj_accepted(window_slice, AND) THEN RFind(window_slice, AND)
    ELSE IF conj_accepted(window_slice, OR) THEN RFind(window_slice, OR)
    ELSE -1

\* the cut point and the rule chosen for the window s..window_end of t
choose_cut(t, s, we, base) ==
    LET comma_pos == Find(t, <<COMMA>>, s, we)
        pos       == conj_match(Slice(t, s, we))
    IN  IF comma_pos # -1
        THEN [cut_at |-> comma_pos + 1, rule |-> base \o "+comma_split"]
        ELSE IF pos # -1
        THEN [cut_at |-> s + pos, rule |-> base \o "+conj_split"]
        ELSE [cut_at |-> we, rule |-> base \o "+length_limit"]

\* one pass of the body of the outer loop, entered with the cursor at st < len(t)
fallback_body(t, ml, base, st) ==
    LET length == Len(t)
        s      == skip_spaces(t, st)
    IN  IF s < -length THEN [kind |-> "raised", start |-> s]
        ELSE IF s >= length THEN [kind |-> "exit", start |-> s]
        ELSE IF remaining_fits(t, s, ml)
        THEN [kind |-> "tail", start |-> s,
              segment |-> Strip(Slice(t, s, length)), rule |-> base \o "+tail"]
        ELSE LET we  == Min(s + ml, length)
                 cut == choose_cut(t, s, we, base)
             IN  [kind |-> "cut", start |-> cut.cut_at, window_start |-> s,
                  window_end |-> we, cut_at |-> cut.cut_at, rule |-> cut.rule,
                  segment |-> Strip(Slice(t, s, cut.cut_at))]

\* if segment: chunks.append({"chunk": segment, "rule": rule})
emitted(b) ==
    IF b.kind \in {"tail", "cut"} /\ b.segment # <<>>
    THEN <<[chunk |-> b.segment, rule |-> b.rule]>>
    ELSE <<>>

RECURSIVE fallback_loop(_, _, _, _)
\* the outer loop from cursor st on, for max_len >= 1 (where every pass moves
\* the cursor forward and none raises)
fallback_loop(t, ml, base, st) ==
    IF st >= Len(t) THEN <<>>
    ELSE LET b == fallback_body(t, ml, base, st)
         IN  IF b.kind = "cut"
             THEN emitted(b) \o fallback_loop(t, ml, base, b.start)
             ELSE emitted(b)

fallback_split_by_commas_and_conjs(t, ml, base) == fallback_loop(t, ml, base, 0)

----------------------------------------------------------------------------
(* split_by_subordinators and split_long_sentence                          *)

SUBORDINATORS == {
    <<"w", "h", "e", "n">>,
    <<"w", "h", "i", "l", "e">>,
    <<"w", "h", "e", "r", "e">>,
    <<"w", "i", "t", "h">>,
    <<"b", "e", "f", "o", "r", "e">>,
    <<"u", "n", "t", "i", "l">>,
    <<"b", "e", "c", "a", "u", "s", "e">>,
    <<"a", "l", "t", "h", "o", "u", "g", "h">>,
    <<"t", "h", "o", "u", "g", "h">>,
    <<"s", "i", "n", "c", "e">>,
    <<"a", "f", "t", "e", "r">>,
    <<"a", "s">>,
    <<"i", "f">> }

RECURSIVE Sorted(_)
\* sorted(S) for a set S of integers
Sorted(S) ==
    IF S = {} THEN <<>>
    ELSE LET m == CHOOSE x \in S : \A y \in S : x <= y
         IN  <<m>> \o Sorted(S \ {m})

\* \bword\b, ignoring case, matches at offset k of t for some subordinator
subordinator_at(t, k) ==
    /\ k = 0 \/ ~IsWord(t[k])
    /\ \E w \in SUBORDINATORS :
           /\ k + Len(w) <= Len(t)
           /\ k + Len(w) = Len(t) \/ ~IsWord(t[k + Len(w) + 1])
           /\ Lower(SubSeq(t, k + 1, k + Len(w))) = w

find_subordinator_positions(t) ==
    Sorted({k \in 0..(Len(t) - 1) : subordinator_at(t, k)})

\* clause_starts without the insertion of 0
clause_starts_no_lead(t) == find_subordinator_positions(t)

\* starts, after the insertion of 0; called when there is a subordinator
clause_starts(t) ==
    LET starts == find_subordinator_positions(t)
    IN  IF starts[1] # 0 THEN <<0>> \o starts ELSE starts

\* the chunks of the clause t[start:end]
clause_chunks_of(t, ml, from, to) ==
    LET clause == Strip(Slice(t, from, to))
    IN  IF clause = <<>> THEN <<>>
        ELSE IF Len(clause) <= ml
        THEN <<[chunk |-> clause, rule |-> "clause_subordinator"]>>
        ELSE fallback_split_by_commas_and_conjs(clause, ml, "clause_subordinator")

split_by_subordinators(t, ml) ==
    IF find_subordinator_positions(t) = <<>>
    THEN fallback_split_by_commas_and_conjs(t, ml, "length_fallback")
    ELSE LET starts == clause_starts(t)
         IN  Flatten([i \in 1..Len(starts) |->
                 clause_chunks_of(t, ml, starts[i],
                     IF i + 1 <= Len(starts) THEN starts[i + 1] ELSE Len(t))])

\* comma_positions looking for ";" in place of ","
comma_positions_none(t) == Sorted({k \in 0..(Len(t) - 1) : t[k + 1] = ";"})

\* comma_positions, as 0-based offsets in ascending order
comma_positions(t) == Sorted({k \in 0..(Len(t) - 1) : t[k + 1] = COMMA})

\* segments: the stripped non-empty slices that end after each comma, and the tail
comma_segments(t) ==
    LET cp == comma_positions(t)
    IN  SelectSeq([i \in 1..(Len(cp) + 1) |->
                      Strip(Slice(t, IF i = 1 THEN 0 ELSE cp[i - 1] + 1,
                                     IF i <= Len(cp) THEN cp[i] + 1 ELSE Len(t)))],
                  NonEmpty)

split_long_sentence(t, ml) ==
    IF comma_positions(t) # <<>>
    THEN LET segments == comma_segments(t)
         IN  Flatten([i \in 1..Len(segments) |->
                 IF Len(segments[i]) <= ml
                 THEN <<[chunk |-> segments[i], rule |-> "comma_first"]>>
                 ELSE split_by_subordinators(segments[i], ml)])
    ELSE split_by_subordinators(t, ml)

----------------------------------------------------------------------------
(* process_paragraph and chunk_text                                        *)

\* the chunks of one sentence of the paragraph
sentence_chunks(sent, ml) ==
    LET sent_text == Strip(sent)
    IN  IF sent_text = <<>> THEN <<>>
        ELSE IF Len(sent_text) <= ml
        THEN <<[chunk |-> sent_text, rule |-> "sentence"]>>
        ELSE split_long_sentence(sent_text, ml)

process_paragraph(p, ml) ==
    LET sentences == split_into_sentences(p)
    IN  Flatten([i \in 1..Len(sentences) |-> sentence_chunks(sentences[i], ml)])

\* final_chunk with len(ch), the number of keys of ch, for the length
final_chunk_len_of_record(ch) ==
    [chunk |-> Strip(ch.chunk), rule |-> ch.rule, length |-> 2]

\* the record the final formatting appends for ch, whose stripped text is not empty
final_chunk(ch) ==
    LET chunk_text_str == Strip(ch.chunk)
    IN  [chunk |-> chunk_text_str, rule |-> ch.rule, length |-> Len(chunk_text_str)]

\* the final formatting loop
final_formatting(cs) ==
    Flatten([i \in 1..Len(cs) |->
        IF Strip(cs[i].chunk) = <<>> THEN <<>> ELSE <<final_chunk(cs[i])>>])

chunk_text(t, ml) ==
    LET paras == split_into_paragraphs(normalize_for_tts(t))
    IN  final_formatting(Flatten([i \in 1..Len(paras) |-> process_paragraph(paras[i], ml)]))

----------------------------------------------------------------------------
(* Inputs.                                                                 *)

MAX_LEN_DEFAULT == 200

\* the longest input of the normalizer, in tokens
MaxNormTokens == 5

\* the longest input of chunk_text, in tokens
MaxChunkTokens == 4

\* the largest max_len given to chunk_text
MaxChunkLen == 6

\* the longest input of chunk_text whose fallback calls are followed, in tokens
MaxFallbackTokens == 5

\* the largest max_len given to the fallback splitter
MaxFallbackLen == 13

\* the number of passes of the fallback loop that are followed
MaxIters == 6

RECURSIVE Texts(_, _)
\* the strings made of at most n tokens
Texts(tokens, n) ==
    IF n = 0 THEN {<<>>}
    ELSE {<<>>} \cup {tk \o s : tk \in tokens, s \in Texts(tokens, n - 1)}

NormTokens ==
    {<<"a">>, <<"a", HY, "a">>, <<"t", "h", "u", "s">>, <<HY>>, <<EM>>, <<SP>>, <<COMMA>>}

ChunkTokens ==
    {<<"b", "b">>, <<"a", "s">>, <<SP>>, <<COMMA>>, <<".">>, OR, <<NL, NL>>, <<HY>>}

FallbackTokens ==
    {<<"b", "b">>, AND, OR, <<SP, "a", "s", SP>>, <<COMMA>>}

NormInputs == Texts(NormTokens, MaxNormTokens)

ChunkInputs == Texts(ChunkTokens, MaxChunkTokens)

FallbackTexts == Texts(FallbackTokens, MaxFallbackTokens)

\* the (text, base_rule) arguments of the calls split_by_subordinators(t, ml)
\* makes to the fallback splitter
subordinator_fallback_calls(t, ml) ==
    IF find_subordinator_positions(t) = <<>>
    THEN {<<t, "length_fallback">>}
    ELSE LET starts == clause_starts(t)
             clause(i) == Strip(Slice(t, starts[i],
                              IF i + 1 <= Len(starts) THEN starts[i + 1] ELSE Len(t)))
         IN  {<<clause(i), "clause_subordinator">> :
                 i \in {j \in 1..Len(starts) : Len(clause(j)) > ml}}

\* the sentences chunk_text hands to process_paragraph's loop for the input raw
sentences_of(raw) ==
    LET paras == split_into_paragraphs(normalize_for_tts(raw))
    IN  Flatten([i \in 1..Len(paras) |-> split_into_sentences(paras[i])])

\* the (text, base_rule) arguments of the calls process_paragraph makes to
\* the fallback splitter, through split_long_sentence, for the sentence sent
fallback_calls(sent, ml) ==
    LET sent_text == Strip(sent)
    IN  IF sent_text = <<>> \/ Len(sent_text) <= ml THEN {}
        ELSE IF comma_positions(sent_text) # <<>>
        THEN LET segments == comma_segments(sent_text)
             IN  UNION {subordinator_fallback_calls(segments[i], ml) :
                           i \in {j \in 1..Len(segments) : Len(segments[j]) > ml}}
        ELSE subordinator_fallback_calls(sent_text, ml)

----------------------------------------------------------------------------
(* The runs.                                                               *)

\* the state before anything ran
Idle ==
    /\ normalized = <<>>
    /\ renormalized = <<>>
    /\ paragraphs = <<>>
    /\ all_chunks = <<>>
    /\ final_chunks = <<>>
    /\ base_rule = "length_fallback"
    /\ start = 0
    /\ window_start = 0
    /\ window_end = 0
    /\ cut_at = 0
    /\ rule = ""
    /\ chunks = <<>>
    /\ entry_start = 0
    /\ iters = 0

\* normalized = normalize_for_tts(text)
Normalize ==
    /\ pc = "input"
    /\ normalized' = normalize_for_tts(text)
    /\ pc' = "normalized"
    /\ UNCHANGED <<text, max_len, renormalized, paragraphs, all_chunks,
                   final_chunks, base_rule, start, window_start, window_end,
                   cut_at, rule, chunks, entry_start, iters>>

\* the normalizer run again, on its own output
Renormalize ==
    /\ pc = "normalized"
    /\ renormalized' = normalize_for_tts(normalized)
    /\ pc' = "renormalized"
    /\ UNCHANGED <<text, max_len, normalized, paragraphs, all_chunks,
                   final_chunks, base_rule, start, window_start, window_end,
                   cut_at, rule, chunks, entry_start, iters>>

\* paragraphs = split_into_paragraphs(normalized)
SplitParagraphs ==
    /\ pc = "normalized"
    /\ paragraphs' = split_into_paragraphs(normalized)
    /\ pc' = "paragraphs"
    /\ UNCHANGED <<text, max_len, normalized, renormalized, all_chunks,
                   final_chunks, base_rule, start, window_start, window_end,
                   cut_at, rule, chunks, entry_start, iters>>

\* one pass of "for para in paragraphs"
ProcessParagraph ==
    /\ pc = "paragraphs"
    /\ paragraphs # <<>>
    /\ all_chunks' = all_chunks \o process_paragraph(Head(paragraphs), max_len)
    /\ paragraphs' = Tail(paragraphs)
    /\ UNCHANGED <<text, max_len, pc, normalized, renormalized, final_chunks,
                   base_rule, start, window_start, window_end, cut_at, rule,
                   chunks, entry_start, iters>>

\* the final formatting, and the return
FinalFormatting ==
    /\ pc = "paragraphs"
    /\ paragraphs = <<>>
    /\ final_chunks' = final_formatting(all_chunks)
    /\ pc' = "done"
    /\ UNCHANGED <<text, max_len, normalized, renormalized, paragraphs,
                   all_chunks, base_rule, start, window_start, window_end,
                   cut_at, rule, chunks, entry_start, iters>>

\* one test of "while start < length" and, when it holds, one pass of the body
FallbackStep ==
    /\ pc = "loop"
    /\ iters < MaxIters
    /\ iters' = iters + 1
    /\ entry_start' = start
    /\ IF start >= Len(text)
       THEN /\ pc' = "returned"
            /\ UNCHANGED <<start, window_start, window_end, cut_at, rule, chunks>>
       ELSE LET b == fallback_body(text, max_len, base_rule, start)
            IN  /\ start' = b.start
                /\ chunks' = chunks \o emitted(b)
                /\ pc' = CASE b.kind = "cut" -> "loop"
                           [] b.kind = "raised" -> "raised"
                           [] OTHER -> "returned"
                /\ IF b.kind = "cut"
                   THEN /\ window_start' = b.window_start
                        /\ window_end' = b.window_end
                        /\ cut_at' = b.cut_at
                        /\ rule' = b.rule
                   ELSE UNCHANGED <<window_start, window_end, cut_at, rule>>
    /\ UNCHANGED <<text, max_len, normalized, renormalized, paragraphs,
                   all_chunks, final_chunks, base_rule>>

InitNorm ==
    /\ text \in NormInputs
    /\ max_len = MAX_LEN_DEFAULT
    /\ pc = "input"
    /\ Idle

NextNorm == Normalize \/ Renormalize

SpecNorm == InitNorm /\ [][NextNorm]_vars

InitChunk ==
    /\ text \in ChunkInputs
    /\ max_len \in 1..MaxChunkLen
    /\ pc = "input"
    /\ Idle

NextChunk == Normalize \/ SplitParagraphs \/ ProcessParagraph \/ FinalFormatting

SpecChunk == InitChunk /\ [][NextChunk]_vars

InitFallback ==
    /\ \E raw \in FallbackTexts :
           LET sentences == sentences_of(raw)
           IN  \E i \in 1..Len(sentences) :
                   \* a piece is passed on exactly when it is longer than
                   \* max_len, and it is no longer than its segment and its
                   \* sentence: the calls for max_len are those for -1 whose
                   \* text is longer than max_len
                   \E call \in fallback_calls(sentences[i], -1) :
                       /\ text = call[1]
                       /\ base_rule = call[2]
                       /\ max_len \in (-1)..Min(Len(call[1]) - 1, MaxFallbackLen)
    /\ pc = "loop"
    /\ normalized = <<>>
    /\ renormalized = <<>>
    /\ paragraphs = <<>>
    /\ all_chunks = <<>>
    /\ final_chunks = <<>>
    /\ start = 0
    /\ window_start = 0
    /\ window_end = 0
    /\ cut_at = 0
    /\ rule = ""
    /\ chunks = <<>>
    /\ entry_start = 0
    /\ iters = 0

NextFallback == FallbackStep

SpecFallback == InitFallback /\ [][NextFallback]_vars

----------------------------------------------------------------------------
(* Properties of chunk_text, checked under SpecChunk.                      *)

BaseRules == {"length_fallback", "clause_subordinator"}

CommaSplitRules == {b \o "+comma_split" : b \in BaseRules}

ConjSplitRules == {b \o "+conj_split" : b \in BaseRules}

LengthLimitRules == {b \o "+length_limit" : b \in BaseRules}

TailRules == {b \o "+tail" : b \in BaseRules}

NotSpace(c) == ~IsSpace(c)

\* s with all whitespace deleted
NoSpace(s) == SelectSeq(s, NotSpace)

\* the letters and digits of s
AlnumOf(s) == {s[i] : i \in {j \in 1..Len(s) : IsAlnum(s[j])}}

\* the letters and digits that occur in paragraph i of ps and in no other
OnlyIn(ps, i) ==
    AlnumOf(ps[i]) \ UNION {AlnumOf(ps[j]) : j \in (1..Len(ps)) \ {i}}

\* C1: when the input has two or more paragraphs (separated by blank lines),
\* no returned chunk holds characters of two of them: no chunk holds both a
\* letter found only in one paragraph and a letter found only in another.
ParagraphsAreHardBoundaries ==
    LET ps == split_into_paragraphs(text)
    IN  (pc = "done" /\ Len(ps) >= 2) =>
            \A c \in 1..Len(final_chunks) : \A i, j \in 1..Len(ps) :
                i # j =>
                    ~ /\ AlnumOf(final_chunks[c].chunk) \cap OnlyIn(ps, i) # {}
                      /\ AlnumOf(final_chunks[c].chunk) \cap OnlyIn(ps, j) # {}

\* C2: every returned chunk, whatever its rule, is at most max_len long.
MaxLenIsHardBound ==
    pc = "done" =>
        \A c \in 1..Len(final_chunks) :
            /\ final_chunks[c].length <= max_len
            /\ Len(final_chunks[c].chunk) <= max_len

\* a hard cut produced a chunk of exactly max_len characters
MaxLenIsHardBoundWitness ==
    /\ pc = "done"
    /\ \E c \in 1..Len(final_chunks) :
           /\ final_chunks[c].rule \in LengthLimitRules
           /\ final_chunks[c].length = max_len

\* C4: the texts of the returned chunks, joined in order and with whitespace
\* deleted, are the normalized text with whitespace deleted.
ContentPreserved ==
    pc = "done" =>
        NoSpace(Flatten([c \in 1..Len(final_chunks) |-> final_chunks[c].chunk]))
            = NoSpace(normalize_for_tts(text))

\* a sentence was split at a subordinator and at least two chunks came out
ContentPreservedWitness ==
    /\ pc = "done"
    /\ Len(final_chunks) >= 2
    /\ \E c \in 1..Len(final_chunks) : final_chunks[c].rule = "clause_subordinator"

\* C6: every returned chunk has a non-empty text without leading or trailing
\* whitespace, and its length field is the number of characters of that text.
ChunksWellFormed ==
    pc = "done" =>
        \A c \in 1..Len(final_chunks) :
            LET ch == final_chunks[c]
            IN  /\ ch.chunk # <<>>
                /\ ~IsSpace(ch.chunk[1])
                /\ ~IsSpace(ch.chunk[Len(ch.chunk)])
                /\ ch.length = Len(ch.chunk)

\* the fallback cut at a conjunction, so that the next fragment was cut out
\* of text that began with a space
ChunksWellFormedWitness ==
    /\ pc = "done"
    /\ \E c \in 1..(Len(final_chunks) - 1) :
           /\ final_chunks[c].rule \in ConjSplitRules
           /\ final_chunks[c + 1].length # 2

\* C10: no returned chunk has a rule that ends in "+comma_split".
NoCommaSplit ==
    pc = "done" =>
        \A c \in 1..Len(final_chunks) : final_chunks[c].rule \notin CommaSplitRules

\* a segment that ends in a comma went through the fallback
NoCommaSplitWitness ==
    /\ pc = "done"
    /\ \E c \in 1..Len(final_chunks) :
           /\ final_chunks[c].rule \in TailRules \cup LengthLimitRules \cup ConjSplitRules
           /\ Contains(final_chunks[c].chunk, <<COMMA>>)

----------------------------------------------------------------------------
(* Properties of normalize_for_tts, checked under SpecNorm.                *)

\* the index where the run of letters that ends at index i of t begins
WordStart(t, i) ==
    CHOOSE k \in 1..i :
        /\ \A j \in k..i : IsAlpha(t[j])
        /\ k = 1 \/ ~IsAlpha(t[k - 1])

\* C5: a hyphen of the input that stands between two letters, and whose
\* right-hand word is not a discourse marker, is in the output a hyphen
\* between the same two words.
CompoundsStayHyphenated ==
    pc \in {"normalized", "renormalized"} =>
        \A i \in 2..(Len(text) - 1) :
            LET left  == SubSeq(text, WordStart(text, i - 1), i - 1)
                right == SubSeq(text, i + 1, RunEnd(text, i + 1, Letters) - 1)
            IN  ( /\ text[i] = HY
                  /\ IsAlpha(text[i - 1])
                  /\ IsAlpha(text[i + 1])
                  /\ Lower(right) \notin DISCOURSE )
                => Contains(normalized, left \o <<HY>> \o right)

\* C7: when the input has no comma, the output has no two commas that are
\* adjacent or have only whitespace between them.
NoDuplicateSeparators ==
    (pc \in {"normalized", "renormalized"} /\ ~Contains(text, <<COMMA>>)) =>
        \A i, j \in 1..Len(normalized) :
            (i < j /\ normalized[i] = COMMA /\ normalized[j] = COMMA) =>
                \E k \in (i + 1)..(j - 1) : ~IsSpace(normalized[k])

\* C8: normalizing the normalized text gives the normalized text.
NormalizeIdempotent ==
    pc = "renormalized" => renormalized = normalized

----------------------------------------------------------------------------
(* Properties of the fallback loop, checked under SpecFallback.            *)

\* C3: the fallback loop does not raise, and every pass after which the loop
\* goes on has moved the cursor forward.
FallbackAlwaysAdvances ==
    /\ pc # "raised"
    /\ (pc = "loop" /\ iters > 0) => start > entry_start

\* the window of the last cut: for max_len >= 0, the max_len characters
\* from the cursor
LastWindow == Slice(text, window_start, window_end)

\* offset pos in window w is past 30% of the length of w
PastThreshold(w, pos) == pos # -1 /\ 10 * pos > 3 * Len(w)

\* C9, as stated: with no comma in the window, the cut is at the start of the
\* later of the last " and " and the last " or " of the window when that is
\* past 30% of the window, tagged +conj_split; otherwise it is the hard cut at
\* the end of the window, tagged +length_limit.
ConjCutAtLatestConjunction ==
    (rule # "" /\ max_len >= 0 /\ ~Contains(LastWindow, <<COMMA>>)) =>
        LET latest == Max(RFind(LastWindow, AND), RFind(LastWindow, OR))
        IN  IF PastThreshold(LastWindow, latest)
            THEN cut_at = window_start + latest /\ rule = base_rule \o "+conj_split"
            ELSE cut_at = window_end /\ rule = base_rule \o "+length_limit"

\* C9, amended: with no comma in the window, the cut is at the start of the
\* last " and " of the window when that is past 30% of the window; failing
\* that, at the start of the last " or " when that is past 30% of the window
\* (both tagged +conj_split); failing both, it is the hard cut at the end of
\* the window, tagged +length_limit.
ConjCutPrefersAnd ==
    (rule # "" /\ max_len >= 0 /\ ~Contains(LastWindow, <<COMMA>>)) =>
        LET a == RFind(LastWindow, AND)
            o == RFind(LastWindow, OR)
        IN  IF PastThreshold(LastWindow, a)
            THEN cut_at = window_start + a /\ rule = base_rule \o "+conj_split"
            ELSE IF PastThreshold(LastWindow, o)
            THEN cut_at = window_start + o /\ rule = base_rule \o "+conj_split"
            ELSE cut_at = window_end /\ rule = base_rule \o "+length_limit"

\* the window held an " and " past the threshold and a later " or ", and the
\* cut was made at the " and "
ConjCutPrefersAndWitness ==
    /\ rule = base_rule \o "+conj_split"
    /\ max_len >= 0
    /\ Len(LastWindow) = max_len
    /\ PastThreshold(LastWindow, RFind(LastWindow, AND))
    /\ RFind(LastWindow, OR) > RFind(LastWindow, AND)
    /\ cut_at = window_start + RFind(LastWindow, AND)

====
